---- MODULE Spec2Model ----
(***************************************************************************)
(* Model of job_pipeline.py: a linear batch script over one CSV file.      *)
(* A cell of the file is a sequence of one-character strings; a loaded     *)
(* value is a tagged record (NaN, number, string, bool, timestamp).        *)
(* Library semantics are those of pandas 1.x/2.x (object-dtype strings).   *)
(***************************************************************************)
EXTENDS Integers, Sequences, FiniteSets, TLC

VARIABLES pc, file, df, df_clean, missing_summary, percent_remote,
          avg_posting_age, avg_remote_jobs, out_dir, artifacts, error

vars == <<pc, file, df, df_clean, missing_summary, percent_remote,
          avg_posting_age, avg_remote_jobs, out_dir, artifacts, error>>

(* ------------------------------ bounds -------------------------------- *)
MaxRows == 3
\* longest input file of the runs checked for termination
MaxFairRows == 2

(* ------------------------- program constants -------------------------- *)
keep_cols == <<"job_id", "company_name", "title", "description", "location",
               "work_type", "formatted_experience_level", "remote_allowed",
               "min_salary", "med_salary", "max_salary", "pay_period",
               "currency", "original_listed_time">>

drop_cols == <<"med_salary", "remote_allowed", "min_salary", "max_salary",
               "pay_period", "currency">>

critical_cols == <<"job_id", "title", "company_name", "location">>

text_cols == <<"company_name", "title", "location", "work_type">>

HeadLimit == 5000

SampleFile == "clean_postings_sample.csv"
ShareFile == "remote_share_by_work_type.csv"
AgeFile == "posting_age_by_remote.csv"

\* milliseconds per day: pandas timedelta .dt.days counts whole days
DayMs == 86400000

(* ------------------------------ helpers ------------------------------- *)
Range(s) == {s[i] : i \in 1..Len(s)}

MinOf(S) == CHOOSE x \in S : \A y \in S : x <= y
MaxOf(S) == CHOOSE x \in S : \A y \in S : y <= x

\* characters in code-point order (the part of the character set modelled)
Alphabet == <<"\t", " ", "/", "0", "1", "2", "3", "4", "5", "6", "7", "8", "9",
              "A", "B", "C", "D", "E", "F", "G", "H", "I", "J", "K", "L", "M",
              "N", "O", "P", "Q", "R", "S", "T", "U", "V", "W", "X", "Y", "Z",
              "a", "b", "c", "d", "e", "f", "g", "h", "i", "j", "k", "l", "m",
              "n", "o", "p", "q", "r", "s", "t", "u", "v", "w", "x", "y", "z">>

Code(c) == CHOOSE i \in 1..Len(Alphabet) : Alphabet[i] = c

Whitespace == {"\t", " "}
Digits == {"0", "1", "2", "3", "4", "5", "6", "7", "8", "9"}
\* str.lower on one character
LowerChar(c) ==
    LET k == Code(c)
    IN  IF k >= Code("A") /\ k <= Code("Z")
        THEN Alphabet[k + (Code("a") - Code("A"))]
        ELSE c

\* str.lower
LowerStr(s) == [i \in 1..Len(s) |-> LowerChar(s[i])]


\* variant: only leading whitespace is removed (lstrip)
StripStr_left(s) ==
    LET keep == {i \in 1..Len(s) : s[i] \notin Whitespace}
    IN  IF keep = {} THEN <<>> ELSE SubSeq(s, MinOf(keep), Len(s))

\* str.strip: remove leading and trailing whitespace
StripStr(s) ==
    LET keep == {i \in 1..Len(s) : s[i] \notin Whitespace}
    IN  IF keep = {} THEN <<>> ELSE SubSeq(s, MinOf(keep), MaxOf(keep))

\* substring test (str.contains with a literal pattern)
Contains(s, pat) ==
    \E i \in 1..(Len(s) - Len(pat) + 1) : SubSeq(s, i, i + Len(pat) - 1) = pat

\* lexicographic order on strings by code point
LexLess(s, t) ==
    \E i \in 1..(Len(t)) :
        /\ i <= Len(s) + 1
        /\ \A j \in 1..(i - 1) : s[j] = t[j]
        /\ (i = Len(s) + 1 \/ Code(s[i]) < Code(t[i]))

IsNumeric(s) == s # <<>> /\ \A i \in 1..Len(s) : s[i] \in Digits

DigitVal(c) == Code(c) - Code("0")

RECURSIVE ParseInt(_)
ParseInt(s) ==
    IF s = <<>> THEN 0
    ELSE 10 * ParseInt(SubSeq(s, 1, Len(s) - 1)) + DigitVal(s[Len(s)])

(* --------------------------- loaded values ---------------------------- *)
NaN == [k |-> "nan", n |-> 0, s |-> <<>>]
NaT == [k |-> "nat", n |-> 0, s |-> <<>>]
Num(x) == [k |-> "num", n |-> x, s |-> <<>>]
Str(x) == [k |-> "str", n |-> 0, s |-> x]
Bool(b) == [k |-> "bool", n |-> IF b THEN 1 ELSE 0, s |-> <<>>]
Timestamp(ms) == [k |-> "dt", n |-> ms, s |-> <<>>]

\* isna(): NaN and NaT are the missing values
IsNull(v) == v.k \in {"nan", "nat"}

\* read_csv default NA markers (those of the modelled character set)
NaTokens == {<<>>, <<"N", "A">>, <<"N", "/", "A">>, <<"n", "a", "n">>,
             <<"N", "a", "N">>, <<"n", "u", "l", "l">>, <<"N", "U", "L", "L">>}

(* ------------------------------ inputs -------------------------------- *)
\* cell texts used to build input files
T_Full == <<"F", "u", "l", "l">>
T_full_sp == <<"f", "u", "l", "l", " ">>
T_remote == <<"r", "e", "m", "o", "t", "e">>
T_Acme == <<" ", "A", "c", "m", "e", " ">>
T_Dev == <<"D", "e", "v">>
T_NY == <<"\t", "N", "Y">>
T_NA == <<"N", "A">>
T_yes == <<"y", "e", "s">>
T_abc == <<"a", "b", "c">>
T_x == <<"x">>
T_Day2 == <<"1", "7", "2", "8", "0", "0", "0", "0", "0">>
T_Day1 == <<"8", "6", "4", "0", "0", "0", "0", "0">>
T_Ms1 == <<"1">>
T_0 == <<"0">>
T_1 == <<"1">>
T_2 == <<"2">>

\* one file row over header h; columns the script never reads get a filler
MkRow(h, job, comp, title, loc, wt, ra, t) ==
    [c \in Range(h) |->
        CASE c = "job_id" -> job
          [] c = "company_name" -> comp
          [] c = "title" -> title
          [] c = "location" -> loc
          [] c = "work_type" -> wt
          [] c = "remote_allowed" -> ra
          [] c = "original_listed_time" -> t
          [] c \in {"min_salary", "med_salary", "max_salary"} -> <<>>
          [] OTHER -> T_x]

RowPool(h) ==
    { MkRow(h, T_1, T_Acme, T_Dev, T_NY, T_Full, T_1, T_Day2),
      MkRow(h, T_2, T_Acme, T_Dev, T_NY, T_full_sp, T_0, T_Day1),
      MkRow(h, <<>>, T_Acme, T_Dev, T_NY, T_Full, T_1, T_Day2),
      MkRow(h, T_1, T_Acme, T_Dev, T_NY, T_remote, T_0, T_Ms1),
      MkRow(h, T_2, T_Acme, <<>>, T_NY, <<>>, <<>>, <<>>),
      MkRow(h, T_1, T_NA, T_Dev, T_NY, T_Full, T_yes, T_abc),
      MkRow(h, T_2, T_Acme, T_Dev, <<>>, T_remote, T_2, T_0),
      MkRow(h, T_2, T_Acme, T_Dev, T_NY, <<>>, T_0, T_Day1),
      MkRow(h, T_1, T_Acme, T_Dev, T_NY, T_remote, T_1, T_Day2) }

Tables(h, n) == UNION {[1..m -> RowPool(h)] : m \in 0..n}

\* long files: a short pattern of rows repeated around the head limit
BigPatterns(h) ==
    { <<MkRow(h, T_1, T_Acme, T_Dev, T_NY, T_Full, T_1, T_Day2),
        MkRow(h, <<>>, T_Acme, T_Dev, T_NY, T_remote, T_0, T_Day1)>>,
      <<MkRow(h, T_2, T_Acme, <<>>, T_NY, T_full_sp, T_1, T_abc),
        MkRow(h, T_1, T_Acme, T_Dev, T_NY, T_Full, T_0, T_Ms1),
        MkRow(h, T_1, T_Acme, T_Dev, T_NY, T_remote, T_1, T_Day2)>> }

BigTables(h) ==
    { [i \in 1..m |-> p[((i - 1) % Len(p)) + 1]] :
        p \in BigPatterns(h), m \in {HeadLimit - 1, HeadLimit, HeadLimit + 1} }

ExtraCols == <<"views", "listed_time">>

WithoutCol(h, c) == SelectSeq(h, LAMBDA x : x # c)

OkFile(h, rows) == [status |-> "ok", header |-> h, rows |-> rows]

Files ==
    { [status |-> st, header |-> <<>>, rows |-> <<>>] : st \in {"missing", "malformed"} }
    \cup { OkFile(keep_cols, r) : r \in Tables(keep_cols, MaxRows) }
    \cup { OkFile(keep_cols, r) : r \in BigTables(keep_cols) }
    \cup { OkFile(keep_cols \o ExtraCols, r) :
             r \in Tables(keep_cols \o ExtraCols, MaxRows - 1) }
    \cup UNION { { OkFile(WithoutCol(keep_cols, c), r) :
                     r \in Tables(WithoutCol(keep_cols, c), 1) } :
                 c \in Range(keep_cols) }

NoFrame == [cols |-> <<>>, rows |-> <<>>]

Init ==
    /\ pc = "load"
    /\ file \in Files
    /\ df = NoFrame
    /\ df_clean = NoFrame
    /\ missing_summary = <<>>
    /\ percent_remote = <<>>
    /\ avg_posting_age = <<>>
    /\ avg_remote_jobs = <<>>
    /\ out_dir = FALSE
    /\ artifacts = <<>>
    /\ error = "none"

(* ------------------------------ Loader -------------------------------- *)
\* pd.read_csv: NA markers become NaN; a column whose remaining cells are all
\* numeric is numeric, any other column holds every cell as a string
read_csv(f) ==
    LET h == Range(f.header)
        numeric == {c \in h : \A i \in 1..Len(f.rows) :
                        f.rows[i][c] \in NaTokens \/ IsNumeric(f.rows[i][c])}
        val(c, cell) == IF cell \in NaTokens THEN NaN
                        ELSE IF c \in numeric THEN Num(ParseInt(cell))
                        ELSE Str(cell)
    IN  [cols |-> f.header,
         rows |-> [i \in 1..Len(f.rows) |-> [c \in h |-> val(c, f.rows[i][c])]]]


\* variant: the exception is swallowed and the script goes on to the exports
Abort_Swallow(e) ==
    /\ pc' = "mkdir"
    /\ error' = e

Abort(e) ==
    /\ pc' = "aborted"
    /\ error' = e

\* Step 1, line 10
Load ==
    /\ pc = "load"
    /\ IF file.status = "missing"
       THEN Abort("IOError") /\ UNCHANGED df
       ELSE IF file.status = "malformed"
       THEN Abort("ParseError") /\ UNCHANGED df
       ELSE /\ df' = read_csv(file)
            /\ pc' = "select"
            /\ UNCHANGED error
    /\ UNCHANGED <<file, df_clean, missing_summary, percent_remote,
                   avg_posting_age, avg_remote_jobs, out_dir, artifacts>>

\* DataFrame[list]: projection on the listed columns
Project(frame, cols) ==
    [cols |-> cols,
     rows |-> [i \in 1..Len(frame.rows) |->
                  [c \in Range(cols) |-> frame.rows[i][c]]]]


\* variant: the schema is checked but df keeps every loaded column
Select_NoProjection ==
    /\ pc = "select"
    /\ IF \E c \in Range(keep_cols) : c \notin Range(df.cols)
       THEN Abort("SchemaError") /\ UNCHANGED df
       ELSE /\ df' = df
            /\ pc' = "audit"
            /\ UNCHANGED error
    /\ UNCHANGED <<file, df_clean, missing_summary, percent_remote,
                   avg_posting_age, avg_remote_jobs, out_dir, artifacts>>

\* Step 3, line 35
Select ==
    /\ pc = "select"
    /\ IF \E c \in Range(keep_cols) : c \notin Range(df.cols)
       THEN Abort("SchemaError") /\ UNCHANGED df
       ELSE /\ df' = Project(df, keep_cols)
            /\ pc' = "audit"
            /\ UNCHANGED error
    /\ UNCHANGED <<file, df_clean, missing_summary, percent_remote,
                   avg_posting_age, avg_remote_jobs, out_dir, artifacts>>

\* Step 4, lines 41-63: per core column, the number of missing values and
\* the row count its percentage is taken over (diagnostic only)
Audit ==
    /\ pc = "audit"
    /\ missing_summary' =
         [c \in Range(keep_cols) |->
            [missing_count |-> Cardinality({i \in 1..Len(df.rows) : IsNull(df.rows[i][c])}),
             rows |-> Len(df.rows)]]
    /\ pc' = "drop_cols"
    /\ UNCHANGED <<file, df, df_clean, percent_remote, avg_posting_age,
                   avg_remote_jobs, out_dir, artifacts, error>>

(* ------------------------------ Cleaner ------------------------------- *)
\* DataFrame.drop(columns=...): a new frame without the listed columns
DropColumns(frame, cols) ==
    Project(frame, SelectSeq(frame.cols, LAMBDA c : c \notin Range(cols)))

\* Step 5, line 76
DropCols ==
    /\ pc = "drop_cols"
    /\ df_clean' = DropColumns(df, drop_cols)
    /\ pc' = "drop_rows"
    /\ UNCHANGED <<file, df, missing_summary, percent_remote, avg_posting_age,
                   avg_remote_jobs, out_dir, artifacts, error>>


\* variant: how="all", a row goes only when every column of subset is missing
dropna_all(frame, subset) ==
    [cols |-> frame.cols,
     rows |-> SelectSeq(frame.rows,
                        LAMBDA r : \E c \in Range(subset) : ~IsNull(r[c]))]

\* DataFrame.dropna(subset=...): keep the rows with no missing value in subset
dropna(frame, subset) ==
    [cols |-> frame.cols,
     rows |-> SelectSeq(frame.rows,
                        LAMBDA r : \A c \in Range(subset) : ~IsNull(r[c]))]

\* Step 6, line 85
DropRows ==
    /\ pc = "drop_rows"
    /\ df_clean' = dropna(df_clean, critical_cols)
    /\ pc' = "normalize"
    /\ UNCHANGED <<file, df, missing_summary, percent_remote, avg_posting_age,
                   avg_remote_jobs, out_dir, artifacts, error>>

\* astype(str) on one value: a missing value becomes the text "nan"
\* (text cells of the modelled inputs are never numeric)
astype_str(v) == IF IsNull(v) THEN <<"n", "a", "n">> ELSE v.s

\* .astype(str).str.strip().str.lower() on one value
Normalize(v) == Str(LowerStr(StripStr(astype_str(v))))

\* frame[col] = f(frame[col]) for each col of cols
MapColumns(frame, cols, f(_)) ==
    [cols |-> frame.cols,
     rows |-> [i \in 1..Len(frame.rows) |->
                  [c \in Range(frame.cols) |->
                      IF c \in Range(cols) THEN f(frame.rows[i][c])
                      ELSE frame.rows[i][c]]]]


\* variant: df_clean aliases df, so the text columns of df change as well
NormalizeText_InPlace ==
    /\ pc = "normalize"
    /\ df_clean' = MapColumns(df_clean, text_cols, Normalize)
    /\ df' = MapColumns(df, text_cols, Normalize)
    /\ pc' = "convert_clean"
    /\ UNCHANGED <<file, missing_summary, percent_remote, avg_posting_age,
                   avg_remote_jobs, out_dir, artifacts, error>>

\* Step 7, lines 93-94
NormalizeText ==
    /\ pc = "normalize"
    /\ df_clean' = MapColumns(df_clean, text_cols, Normalize)
    /\ pc' = "convert_clean"
    /\ UNCHANGED <<file, df, missing_summary, percent_remote, avg_posting_age,
                   avg_remote_jobs, out_dir, artifacts, error>>


\* variant: an unparseable value becomes the epoch instead of NaT
to_datetime_epoch(v) ==
    CASE v.k = "num" -> Timestamp(v.n)
      [] v.k = "str" /\ IsNumeric(v.s) -> Timestamp(ParseInt(v.s))
      [] OTHER -> Timestamp(0)

\* pd.to_datetime(unit="ms", errors="coerce") on one value: a number is epoch
\* milliseconds, a numeric string is read as a number, anything else is NaT
to_datetime(v) ==
    CASE v.k = "num" -> Timestamp(v.n)
      [] v.k = "str" /\ IsNumeric(v.s) -> Timestamp(ParseInt(v.s))
      [] OTHER -> NaT

\* Step 8, lines 129-133
ConvertClean ==
    /\ pc = "convert_clean"
    /\ df_clean' = MapColumns(df_clean, <<"original_listed_time">>, to_datetime)
    /\ pc' = "is_remote_substr"
    /\ UNCHANGED <<file, df, missing_summary, percent_remote, avg_posting_age,
                   avg_remote_jobs, out_dir, artifacts, error>>

(* --------------------------- Feature Deriver -------------------------- *)
\* frame[name] = f(row): overwrite the column, or append it when new
SetColumn(frame, name, f(_)) ==
    LET cols == IF name \in Range(frame.cols) THEN frame.cols
                ELSE Append(frame.cols, name)
    IN  [cols |-> cols,
         rows |-> [i \in 1..Len(frame.rows) |->
                      [c \in Range(cols) |->
                          IF c = name THEN f(frame.rows[i]) ELSE frame.rows[i][c]]]]

\* the .str accessor exists on an object column only: a column read from a
\* file with rows is object exactly when it holds a string
HasStrAccessor(frame, col) ==
    \/ Len(frame.rows) = 0
    \/ \E i \in 1..Len(frame.rows) : frame.rows[i][col].k = "str"

\* Series.str.contains("remote", na=False) on one value
str_contains_remote(v) ==
    Bool(v.k = "str" /\ Contains(v.s, <<"r", "e", "m", "o", "t", "e">>))

\* Step 9, line 141
IsRemoteSubstr ==
    /\ pc = "is_remote_substr"
    /\ IF ~HasStrAccessor(df, "work_type")
       THEN Abort("AttributeError") /\ UNCHANGED df
       ELSE /\ df' = SetColumn(df, "is_remote",
                               LAMBDA r : str_contains_remote(r["work_type"]))
            /\ pc' = "is_remote_strict"
            /\ UNCHANGED error
    /\ UNCHANGED <<file, df_clean, missing_summary, percent_remote,
                   avg_posting_age, avg_remote_jobs, out_dir, artifacts>>

\* Series == 1 on one value
eq_one(v) == Bool(v.k = "num" /\ v.n = 1)


\* variant: the strict definition is not assigned, the substring one survives
IsRemoteStrict_Skip ==
    /\ pc = "is_remote_strict"
    /\ pc' = "posting_age"
    /\ UNCHANGED <<file, df, df_clean, missing_summary, percent_remote,
                   avg_posting_age, avg_remote_jobs, out_dir, artifacts, error>>

\* Step 9B, line 165
IsRemoteStrict ==
    /\ pc = "is_remote_strict"
    /\ df' = SetColumn(df, "is_remote", LAMBDA r : eq_one(r["remote_allowed"]))
    /\ pc' = "posting_age"
    /\ UNCHANGED <<file, df_clean, missing_summary, percent_remote,
                   avg_posting_age, avg_remote_jobs, out_dir, artifacts, error>>

\* Series.max() of a timestamp column: NaT is skipped, NaT when nothing is left
max_timestamp(frame, col) ==
    LET ms == {frame.rows[i][col].n :
                 i \in {j \in 1..Len(frame.rows) : frame.rows[j][col].k = "dt"}}
    IN  IF ms = {} THEN NaT ELSE Timestamp(MaxOf(ms))


\* variant: a started day counts as a whole day
age_days_ceil(maxv, v) ==
    IF maxv.k = "dt" /\ v.k = "dt"
    THEN Num((maxv.n - v.n + DayMs - 1) \div DayMs)
    ELSE NaN

\* (max - value).dt.days on one value: whole days, missing when either is NaT
age_days(maxv, v) ==
    IF maxv.k = "dt" /\ v.k = "dt" THEN Num((maxv.n - v.n) \div DayMs) ELSE NaN

\* Step 10, lines 172-185
PostingAge ==
    /\ pc = "posting_age"
    /\ \E withDt \in {SetColumn(df, "original_listed_time_dt",
                                 LAMBDA r : to_datetime(r["original_listed_time"]))} :
       \E max_posting_date \in {max_timestamp(withDt, "original_listed_time_dt")} :
          df' = SetColumn(withDt, "posting_age_days",
                          LAMBDA r : age_days(max_posting_date,
                                              r["original_listed_time_dt"]))
    /\ pc' = "remote_share"
    /\ UNCHANGED <<file, df_clean, missing_summary, percent_remote,
                   avg_posting_age, avg_remote_jobs, out_dir, artifacts, error>>

(* ------------------------------ Aggregator ---------------------------- *)
\* Step 11A, lines 194-200: the two counts percent_remote is the quotient of
RemoteShare ==
    /\ pc = "remote_share"
    /\ percent_remote' =
         [remote_postings |->
              Cardinality({i \in 1..Len(df.rows) : df.rows[i]["is_remote"].n = 1}),
          total_postings |-> Len(df.rows)]
    /\ pc' = "age_by_remote"
    /\ UNCHANGED <<file, df, df_clean, missing_summary, avg_posting_age,
                   avg_remote_jobs, out_dir, artifacts, error>>

\* the elements of S in increasing order of Less (a strict total order on S)
SortedSeqOf(S, Less(_, _)) ==
    [p \in 1..Cardinality(S) |->
        CHOOSE x \in S : Cardinality({y \in S : Less(y, x)}) = p - 1]

\* stable sort of a sequence by a strict weak order
StableSort(q, Less(_, _)) ==
    LET pos(i) == 1 + Cardinality({j \in 1..Len(q) :
                        Less(q[j], q[i]) \/ (~Less(q[i], q[j]) /\ j < i)})
    IN  [p \in 1..Len(q) |-> q[CHOOSE i \in 1..Len(q) : pos(i) = p]]

\* a mean kept as the exact quotient num/den; den = 0 is the mean of nothing (NaN)
Mean(num, den) == [num |-> num, den |-> den]
MeanLess(a, b) == a.num * b.den < b.num * a.den

RECURSIVE WeightedSum(_)
\* sum of x * f[x] over the domain of f (f maps a value to how often it occurs)
WeightedSum(f) ==
    IF DOMAIN f = {} THEN 0
    ELSE LET x == CHOOSE y \in DOMAIN f : TRUE
         IN  x * f[x] + WeightedSum([y \in DOMAIN f \ {x} |-> f[y]])

\* groupby("is_remote")["posting_age_days"].mean(): one entry per is_remote
\* value present, in key order; missing ages are left out of the mean
group_age_by_remote(frame) ==
    LET n == Len(frame.rows)
        keys == {frame.rows[i]["is_remote"].n : i \in 1..n}
        members(key) == {i \in 1..n : /\ frame.rows[i]["is_remote"].n = key
                                      /\ ~IsNull(frame.rows[i]["posting_age_days"])}
        ages(key) == {frame.rows[i]["posting_age_days"].n : i \in members(key)}
        total(key) == WeightedSum([a \in ages(key) |-> Cardinality(
                          {i \in members(key) : frame.rows[i]["posting_age_days"].n = a})])
    IN  [p \in 1..Cardinality(keys) |->
            LET key == SortedSeqOf(keys, LAMBDA a, b : a < b)[p]
            IN  [is_remote |-> Bool(key = 1),
                 mean |-> Mean(total(key), Cardinality(members(key)))]]

\* Step 11B, lines 208-212
AgeByRemote ==
    /\ pc = "age_by_remote"
    /\ avg_posting_age' = group_age_by_remote(df)
    /\ pc' = "share_by_work_type"
    /\ UNCHANGED <<file, df, df_clean, missing_summary, percent_remote,
                   avg_remote_jobs, out_dir, artifacts, error>>

\* groupby("work_type")["is_remote"].mean(): one entry per distinct non-missing
\* work_type value of the frame, in key order
group_remote_by_work_type(frame) ==
    LET n == Len(frame.rows)
        keys == {frame.rows[i]["work_type"].s :
                   i \in {j \in 1..n : ~IsNull(frame.rows[j]["work_type"])}}
        members(key) == {i \in 1..n : /\ ~IsNull(frame.rows[i]["work_type"])
                                      /\ frame.rows[i]["work_type"].s = key}
        ordered == SortedSeqOf(keys, LexLess)
    IN  [p \in 1..Cardinality(keys) |->
            [work_type |-> Str(ordered[p]),
             mean |-> Mean(Cardinality({i \in members(ordered[p]) :
                                           frame.rows[i]["is_remote"].n = 1}),
                           Cardinality(members(ordered[p])))]]

\* sort_values(ascending=False) on the means
SortDescending(q) == StableSort(q, LAMBDA a, b : MeanLess(b.mean, a.mean))

\* Step 11C, lines 218-223
ShareByWorkType ==
    /\ pc = "share_by_work_type"
    /\ avg_remote_jobs' = SortDescending(group_remote_by_work_type(df))
    /\ pc' = "mkdir"
    /\ UNCHANGED <<file, df, df_clean, missing_summary, percent_remote,
                   avg_posting_age, out_dir, artifacts, error>>

(* ------------------------------- Exporter ----------------------------- *)
\* Step 12, lines 232-233
MakeOutputDir ==
    /\ pc = "mkdir"
    /\ out_dir' = TRUE
    /\ pc' = "export_sample"
    /\ UNCHANGED <<file, df, df_clean, missing_summary, percent_remote,
                   avg_posting_age, avg_remote_jobs, artifacts, error>>


\* variant: the sample is taken from the rows that pass the critical-field filter
head_cleaned(frame, n) ==
    LET kept == dropna(frame, critical_cols)
    IN  [cols |-> kept.cols,
         rows |-> SubSeq(kept.rows, 1, IF Len(kept.rows) < n THEN Len(kept.rows) ELSE n)]

\* DataFrame.head(n)
head(frame, n) ==
    [cols |-> frame.cols,
     rows |-> SubSeq(frame.rows, 1, IF Len(frame.rows) < n THEN Len(frame.rows) ELSE n)]

\* Step 12, line 236
ExportSample ==
    /\ pc = "export_sample"
    /\ artifacts' = (SampleFile :> head(df, HeadLimit)) @@ artifacts
    /\ pc' = "export_share"
    /\ UNCHANGED <<file, df, df_clean, missing_summary, percent_remote,
                   avg_posting_age, avg_remote_jobs, out_dir, error>>

\* Step 12, lines 239-245
ExportShare ==
    /\ pc = "export_share"
    /\ artifacts' =
         (ShareFile :>
            [cols |-> <<"work_type", "remote_share">>,
             rows |-> SortDescending(
                        [i \in 1..Len(avg_remote_jobs) |->
                            [work_type |-> avg_remote_jobs[i].work_type,
                             mean |-> avg_remote_jobs[i].mean]])]) @@ artifacts
    /\ pc' = "export_age"
    /\ UNCHANGED <<file, df, df_clean, missing_summary, percent_remote,
                   avg_posting_age, avg_remote_jobs, out_dir, error>>

\* sort_values ascending on the means, missing means last
SortAscendingNaLast(q) ==
    StableSort(q, LAMBDA a, b :
        \/ a.mean.den # 0 /\ b.mean.den = 0
        \/ a.mean.den # 0 /\ b.mean.den # 0 /\ MeanLess(a.mean, b.mean))

\* Step 12, lines 248-255
ExportAge ==
    /\ pc = "export_age"
    /\ artifacts' =
         (AgeFile :> [cols |-> <<"is_remote", "avg_posting_age_days">>,
                      rows |-> SortAscendingNaLast(avg_posting_age)]) @@ artifacts
    /\ pc' = "done"
    /\ UNCHANGED <<file, df, df_clean, missing_summary, percent_remote,
                   avg_posting_age, avg_remote_jobs, out_dir, error>>

Next ==
    \/ Load \/ Select \/ Audit
    \/ DropCols \/ DropRows \/ NormalizeText \/ ConvertClean
    \/ IsRemoteSubstr \/ IsRemoteStrict \/ PostingAge
    \/ RemoteShare \/ AgeByRemote \/ ShareByWorkType
    \/ MakeOutputDir \/ ExportSample \/ ExportShare \/ ExportAge

Spec == Init /\ [][Next]_vars

\* runs on the short input files
InitShort == Init /\ Len(file.rows) <= MaxFairRows

\* the interpreter always executes the next statement of the script
FairSpec == InitShort /\ [][Next]_vars /\ WF_vars(Next)

(* ------------------------------ properties ---------------------------- *)
\* control points at which the derived columns of df are final
AggTime == {"remote_share", "age_by_remote", "share_by_work_type", "mkdir",
            "export_sample", "export_share", "export_age", "done"}

\* control points after the Cleaner's row drop (an abort on the .str accessor
\* happens after the Cleaner ran)
Cleaned ==
    \/ pc \in {"normalize", "convert_clean", "is_remote_substr",
               "is_remote_strict", "posting_age"} \cup AggTime
    \/ pc = "aborted" /\ error = "AttributeError"

Complete(r) == \A c \in Range(critical_cols) : ~IsNull(r[c])

Rows(frame) == 1..Len(frame.rows)

Exported(name) == name \in DOMAIN artifacts

DerivedCols == <<"is_remote", "original_listed_time_dt", "posting_age_days">>

\* C1: at aggregation and export time every is_remote of df is a boolean that
\* is true exactly when the row's remote_allowed is the number 1, whatever the
\* row's work_type says
C1_IsRemoteStrict ==
    pc \in AggTime =>
        \A i \in Rows(df) :
            /\ df.rows[i]["is_remote"].k = "bool"
            /\ df.rows[i]["is_remote"].n \in {0, 1}
            /\ (df.rows[i]["is_remote"].n = 1) <=>
                   (df.rows[i]["remote_allowed"].k = "num"
                    /\ df.rows[i]["remote_allowed"].n = 1)

\* a work_type containing "remote" next to a remote_allowed that is not 1
C1_Witness ==
    /\ pc \in AggTime
    /\ \E i \in Rows(df) :
          /\ df.rows[i]["work_type"].k = "str"
          /\ Contains(df.rows[i]["work_type"].s, T_remote)
          /\ df.rows[i]["remote_allowed"] = Num(2)
          /\ df.rows[i]["is_remote"] = Bool(FALSE)
    /\ \E i \in Rows(df) : df.rows[i]["is_remote"] = Bool(TRUE)

\* the timestamps present in df
TimesOf(frame) ==
    {frame.rows[i]["original_listed_time_dt"].n :
        i \in {j \in Rows(frame) : frame.rows[j]["original_listed_time_dt"].k = "dt"}}

\* d is the number of whole days in the span from t up to m
WholeDays(d, m, t) == d >= 0 /\ d * DayMs <= m - t /\ m - t < (d + 1) * DayMs

\* C2: every row of df with a timestamp has a non-negative posting_age_days,
\* the whole days from its timestamp to the largest timestamp of the table,
\* and every row holding the largest timestamp has age 0
C2_PostingAge ==
    pc \in AggTime =>
        \A m \in {x \in TimesOf(df) : \A y \in TimesOf(df) : y <= x} :
            \A i \in Rows(df) :
                df.rows[i]["original_listed_time_dt"].k = "dt" =>
                    /\ df.rows[i]["posting_age_days"].k = "num"
                    /\ WholeDays(df.rows[i]["posting_age_days"].n, m,
                                 df.rows[i]["original_listed_time_dt"].n)
                    /\ df.rows[i]["original_listed_time_dt"].n = m =>
                           df.rows[i]["posting_age_days"].n = 0

\* a tie at the maximum and a row less than a day short of two days old
C2_Witness ==
    /\ pc \in AggTime
    /\ Cardinality({i \in Rows(df) : df.rows[i]["posting_age_days"] = Num(0)}) >= 2
    /\ \E i \in Rows(df) :
          /\ df.rows[i]["original_listed_time_dt"] = Timestamp(1)
          /\ df.rows[i]["posting_age_days"] = Num(1)

\* C3: after the row drop every row of df_clean has all four critical fields,
\* and the rows kept are exactly the rows of df with all four present
C3_CriticalNonNull ==
    Cleaned =>
        /\ \A k \in Rows(df_clean) : Complete(df_clean.rows[k])
        /\ Len(df_clean.rows) =
               Cardinality({i \in Rows(df) : Complete(df.rows[i])})
        /\ pc = "normalize" =>
               {df_clean.rows[k] : k \in Rows(df_clean)} =
               {[c \in Range(df_clean.cols) |-> df.rows[i][c]] :
                   i \in {j \in Rows(df) : Complete(df.rows[j])}}

\* one row kept, and one row dropped for each of the four critical fields
C3_Witness ==
    /\ pc = "normalize"
    /\ Len(df_clean.rows) = 1
    /\ Len(df.rows) = 3
    /\ \E c \in Range(critical_cols) : \E d \in Range(critical_cols) :
          /\ c # d
          /\ \E i \in Rows(df) : IsNull(df.rows[i][c])
          /\ \E i \in Rows(df) : IsNull(df.rows[i][d])

CleanerSteps == {"drop_cols", "drop_rows", "normalize", "convert_clean"}

\* the three-row scenario: the third row has no job_id
Scenario ==
    <<MkRow(keep_cols, T_1, T_Acme, T_Dev, T_NY, T_Full, T_1, T_Day2),
      MkRow(keep_cols, T_2, T_Acme, T_Dev, T_NY, T_full_sp, T_0, T_Day1),
      MkRow(keep_cols, <<>>, T_Acme, T_Dev, T_NY, T_Full, T_1, T_Day2)>>

\* a row missing a critical field is in df with its remote_allowed and both features
DroppedRowsKept ==
    /\ Len(df.rows) = Len(file.rows)
    /\ \A i \in Rows(df) :
          ~Complete(df.rows[i]) =>
              /\ IsNull(df.rows[i]["remote_allowed"]) <=>
                     (file.rows[i]["remote_allowed"] \in NaTokens)
              /\ df.rows[i]["is_remote"].k = "bool"
              /\ (df.rows[i]["posting_age_days"].k = "num") <=>
                     (df.rows[i]["original_listed_time_dt"].k = "dt")

ScenarioResult ==
    /\ Len(df_clean.rows) = 2
    /\ Len(df.rows) = 3
    /\ [i \in 1..3 |-> df.rows[i]["is_remote"]] =
           <<Bool(TRUE), Bool(FALSE), Bool(TRUE)>>
    /\ [i \in 1..3 |-> df.rows[i]["posting_age_days"]] = <<Num(0), Num(1), Num(0)>>

CleanerLeavesDf == pc \in CleanerSteps => UNCHANGED df

\* C4: no Cleaner step changes df; a row dropped from df_clean stays in df
\* with its remote_allowed, is_remote and posting_age_days; the three-row
\* scenario gives 2 core rows, 3 full rows, is_remote [T, F, T], ages [0, 1, 0]
C4_CleanerFrame ==
    /\ [][CleanerLeavesDf]_vars
    /\ [](pc \in AggTime => DroppedRowsKept)
    /\ [](pc \in AggTime /\ file.rows = Scenario => ScenarioResult)

C4_Witness ==
    /\ pc = "done"
    /\ file.rows = Scenario
    /\ Len(df_clean.rows) = 2
    /\ ~Complete(df.rows[3])
    /\ df.rows[3]["is_remote"] = Bool(TRUE)

LoadOrSchemaError ==
    \/ file.status # "ok"
    \/ \E c \in Range(keep_cols) : c \notin Range(file.header)

\* C5: a file that cannot be loaded or lacks a core column stops the run
\* before the output directory and any artifact exist; an aborted run has
\* written nothing; nothing is written before every earlier stage is done
C5_FailFast ==
    /\ LoadOrSchemaError =>
          /\ pc \in {"load", "select", "aborted"}
          /\ ~out_dir
          /\ DOMAIN artifacts = {}
    /\ pc = "aborted" => ~out_dir /\ DOMAIN artifacts = {}
    /\ (out_dir \/ DOMAIN artifacts # {}) =>
          /\ pc \in {"export_sample", "export_share", "export_age", "done"}
          /\ error = "none"
          /\ Range(DerivedCols) \subseteq Range(df.cols)
          /\ df_clean # NoFrame
          /\ missing_summary # <<>>
          /\ percent_remote # <<>>

C5_Witness ==
    /\ pc = "aborted"
    /\ error = "SchemaError"
    /\ "remote_allowed" \notin Range(file.header)
    /\ Len(file.rows) = 1
    /\ ~out_dir

\* C6 (as stated): the exported remote share has one row per distinct
\* trimmed, lowercased work_type of df, each share is a fraction of the
\* group between 0 and 1, and the rows are in descending order of share
C6_ShareByNormalizedWorkType ==
    Exported(ShareFile) =>
        LET rows == artifacts[ShareFile].rows
        IN  /\ Len(rows) =
                   Cardinality({Normalize(df.rows[i]["work_type"]) :
                                  i \in {j \in Rows(df) : ~IsNull(df.rows[j]["work_type"])}})
            /\ \A k \in 1..Len(rows) :
                  /\ rows[k].mean.den > 0
                  /\ 0 <= rows[k].mean.num
                  /\ rows[k].mean.num <= rows[k].mean.den
            /\ \A k \in 1..(Len(rows) - 1) : ~MeanLess(rows[k].mean, rows[k + 1].mean)

\* the cell of the file a loaded value was read from
ReadFrom(v, cell) ==
    /\ v.k \in {"nan", "num", "str"}
    /\ v.k = "nan" <=> cell \in NaTokens
    /\ v.k = "str" => v.s = cell
    /\ v.k = "num" => IsNumeric(cell) /\ v.n = ParseInt(cell)

C8_AllSourceColumns ==
    Exported(SampleFile) =>
        Range(file.header) \cup Range(DerivedCols)
            \subseteq Range(artifacts[SampleFile].cols)

\* C8 (amended): the exported sample has exactly the core columns and the
\* three derived columns; a column of the file outside the core list is absent
C8_CoreColumns ==
    Exported(SampleFile) =>
        /\ Range(artifacts[SampleFile].cols) = Range(keep_cols) \cup Range(DerivedCols)
        /\ \A c \in Range(file.header) :
              c \in Range(artifacts[SampleFile].cols) <=> c \in Range(keep_cols)

C8_Witness ==
    /\ Exported(SampleFile)
    /\ "views" \in Range(file.header)
    /\ "views" \notin Range(artifacts[SampleFile].cols)
    /\ Len(artifacts[SampleFile].rows) > 0

\* a loaded original_listed_time that is epoch milliseconds
Parseable(v) == v.k = "num" \/ (v.k = "str" /\ IsNumeric(v.s))
Millis(v) == IF v.k = "num" THEN v.n ELSE ParseInt(v.s)

\* the recovery of unparseable values, as a property of every state
BadTimestampRecovered ==
    /\ pc \in AggTime =>
          /\ Len(df.rows) = Len(file.rows)
          /\ \A i \in Rows(df) :
                ~Parseable(df.rows[i]["original_listed_time"]) =>
                    /\ df.rows[i]["original_listed_time_dt"] = NaT
                    /\ df.rows[i]["posting_age_days"] = NaN
          /\ \A m \in {x \in {Millis(df.rows[i]["original_listed_time"]) :
                               i \in {j \in Rows(df) :
                                        Parseable(df.rows[j]["original_listed_time"])}} :
                         \A i \in Rows(df) :
                             Parseable(df.rows[i]["original_listed_time"]) =>
                                 Millis(df.rows[i]["original_listed_time"]) <= x} :
                \A i \in Rows(df) :
                    Parseable(df.rows[i]["original_listed_time"]) =>
                        /\ df.rows[i]["original_listed_time_dt"] =
                               Timestamp(Millis(df.rows[i]["original_listed_time"]))
                        /\ df.rows[i]["posting_age_days"].k = "num"
                        /\ WholeDays(df.rows[i]["posting_age_days"].n, m,
                                     Millis(df.rows[i]["original_listed_time"]))
    /\ pc = "aborted" =>
          \/ LoadOrSchemaError
          \/ error = "AttributeError" /\ ~HasStrAccessor(df, "work_type")
    /\ pc = "done" => DOMAIN artifacts = {SampleFile, ShareFile, AgeFile}

\* a run about to start on a loadable file with every core column, a
\* work_type column holding text, and an original_listed_time cell that is
\* not a number
StartsWithBadTimestamp ==
    /\ pc = "load"
    /\ ~LoadOrSchemaError
    /\ \E i \in 1..Len(file.rows) :
          /\ file.rows[i]["work_type"] \notin NaTokens
          /\ ~IsNumeric(file.rows[i]["work_type"])
    /\ \E i \in 1..Len(file.rows) :
          ~IsNumeric(file.rows[i]["original_listed_time"])

\* C9: a row whose original_listed_time is not epoch milliseconds keeps its
\* place in df with a missing timestamp and a missing age; the other rows'
\* timestamps and ages are those of the parseable values alone; such a value
\* is never the reason of an abort, and the run goes on to its end with all
\* three artifacts written
C9_BadTimestamp ==
    /\ []BadTimestampRecovered
    /\ StartsWithBadTimestamp ~>
           (pc = "done" /\ DOMAIN artifacts = {SampleFile, ShareFile, AgeFile})

\* a finished run over a row with the text "abc" as its time, next to a row
\* whose timestamp is the maximum
C9_Witness ==
    /\ pc = "done"
    /\ DOMAIN artifacts = {SampleFile, ShareFile, AgeFile}
    /\ \E i \in Rows(df) :
          /\ df.rows[i]["original_listed_time"] = Str(T_abc)
          /\ df.rows[i]["original_listed_time_dt"] = NaT
          /\ df.rows[i]["posting_age_days"] = NaN
    /\ \E i \in Rows(df) :
          /\ df.rows[i]["original_listed_time"] = Str(T_Day1)
          /\ df.rows[i]["posting_age_days"] = Num(0)

UpperLetters == {Alphabet[i] : i \in Code("A")..Code("Z")}

\* y is x in lower case
LowerOf(x, y) ==
    IF x \in UpperLetters
    THEN Code(y) - Code(x) = Code("a") - Code("A")
    ELSE y = x

\* res is src as text, without the whitespace around it, in lower case
NormalizedFrom(res, src) ==
    LET s == IF IsNull(src) THEN <<"n", "a", "n">> ELSE src.s
        t == res.s
    IN  /\ res.k = "str"
        /\ t # <<>> => t[1] \notin Whitespace /\ t[Len(t)] \notin Whitespace
        /\ \E a \in 1..(Len(s) + 1) :
              /\ a + Len(t) - 1 <= Len(s)
              /\ \A j \in 1..(a - 1) : s[j] \in Whitespace
              /\ \A j \in (a + Len(t))..Len(s) : s[j] \in Whitespace
              /\ \A j \in 1..Len(t) : LowerOf(s[a + j - 1], t[j])

====
